---- MODULE Spec2Model ----
(***************************************************************************)
(* Model of the httperror package: the context-bound error reporter, the   *)
(* responseWriter wrapper and NewErrorReporterMiddleware (direct-proxy     *)
(* variant, src/httperror.go lines 1-231), run for one request against a   *)
(* real http.ResponseWriter that records every call made on it.            *)
(***************************************************************************)
EXTENDS Integers, Sequences, FiniteSets, TLC

VARIABLES
    pc,           \* position of the middleware: running, decide, clear, invoke, done
    handlerError, \* the captured variable handlerError (httperror.go:181)
    rw,           \* the responseWriter wrapper: wroteHeader, hijacked, code
    wlog,         \* every call received by the real ResponseWriter, in order
    wHeader,      \* the real ResponseWriter's live header map, w.Header()
    wSent,        \* the header snapshot the real writer put on the wire at commit
    deleted,      \* header keys the middleware deleted from w.Header()
    lastOp,       \* the operation performed by the latest step and its result
    nOps,         \* number of operations the next handler has performed
    caps,         \* optional interfaces the real ResponseWriter implements
    ehKind,       \* "default" (handler == nil) or "custom"
    accept,       \* media types present in the request's Accept header
    ehCalls,      \* number of times the middleware invoked the error handler
    ehArg,        \* the error value handed to the error handler
    errAtReturn,  \* handlerError at the moment next.ServeHTTP returned
    earlyReport,  \* the stored failure was reported while nothing was committed
    bg,           \* background goroutine started by the handler: none, live
    srv,          \* several requests in flight on one middleware instance
    errAtDecide,  \* handlerError as the middleware read it at line 198
    lib,          \* the latest call of a constructor or ReportX helper and its result
    recorder,     \* buffering variant: the httptest recorder given to the next handler
    reports       \* the failures the handler passed to ReportError, in call order

vars == <<pc, handlerError, rw, wlog, wHeader, wSent, deleted, lastOp, nOps,
          caps, ehKind, accept, ehCalls, ehArg, errAtReturn, earlyReport, bg,
          srv, errAtDecide, lib, recorder, reports>>

(* ---------------------------- bounds ----------------------------------- *)

MaxOps == 3

\* operations each of several concurrent requests performs
MaxReqOps == 2

(* ---------------------------- values ----------------------------------- *)

StatusOK == 200
StatusBadRequest == 400
StatusNotFound == 404
StatusTeapot == 418
StatusInternalServerError == 500

StatusText(code) ==
    CASE code = 200 -> "OK"
      [] code = 400 -> "Bad Request"
      [] code = 401 -> "Unauthorized"
      [] code = 402 -> "Payment Required"
      [] code = 403 -> "Forbidden"
      [] code = 404 -> "Not Found"
      [] code = 405 -> "Method Not Allowed"
      [] code = 406 -> "Not Acceptable"
      [] code = 407 -> "Proxy Authentication Required"
      [] code = 408 -> "Request Timeout"
      [] code = 409 -> "Conflict"
      [] code = 410 -> "Gone"
      [] code = 411 -> "Length Required"
      [] code = 412 -> "Precondition Failed"
      [] code = 413 -> "Request Entity Too Large"
      [] code = 414 -> "Request URI Too Long"
      [] code = 415 -> "Unsupported Media Type"
      [] code = 416 -> "Requested Range Not Satisfiable"
      [] code = 417 -> "Expectation Failed"
      [] code = 418 -> "I'm a teapot"
      [] code = 421 -> "Misdirected Request"
      [] code = 422 -> "Unprocessable Entity"
      [] code = 423 -> "Locked"
      [] code = 424 -> "Failed Dependency"
      [] code = 425 -> "Too Early"
      [] code = 426 -> "Upgrade Required"
      [] code = 428 -> "Precondition Required"
      [] code = 429 -> "Too Many Requests"
      [] code = 431 -> "Request Header Fields Too Large"
      [] code = 451 -> "Unavailable For Legal Reasons"
      [] code = 500 -> "Internal Server Error"
      [] code = 501 -> "Not Implemented"
      [] code = 502 -> "Bad Gateway"
      [] code = 503 -> "Service Unavailable"
      [] code = 504 -> "Gateway Timeout"
      [] code = 505 -> "HTTP Version Not Supported"
      [] code = 506 -> "Variant Also Negotiates"
      [] code = 507 -> "Insufficient Storage"
      [] code = 508 -> "Loop Detected"
      [] code = 510 -> "Not Extended"
      [] code = 511 -> "Network Authentication Required"
      [] OTHER -> ""

\* error interface values: the nil interface, a nil *HttpError inside a
\* non-nil interface, a non-nil *HttpError, any other error type.
NilErr == [kind |-> "nil", status |-> 0, msg |-> ""]
TypedNil == [kind |-> "typednil", status |-> 0, msg |-> ""]
New(status, message) == [kind |-> "http", status |-> status, msg |-> message]
Generic(text) == [kind |-> "other", status |-> 0, msg |-> text]

NotFound == New(StatusNotFound, StatusText(StatusNotFound))
BadRequestMsg == New(StatusBadRequest, "bad id")
InternalServerError == New(StatusInternalServerError, StatusText(StatusInternalServerError))

RealErrors == {BadRequestMsg, Generic("boom")}
Reportable == RealErrors \cup {NilErr, TypedNil}

\* what the Go comparison `err != nil` on an error interface yields
IsNonNilInterface(err) == err.kind # "nil"

Raw(text) == [fmt |-> "raw", status |-> 0, msg |-> text]
NoData == Raw("")

\* number of bytes in a chunk of body data
ChunkLen(b) == Len(b.msg)

\* a call received by the real writer; n and err are its answer (a call
\* whose answer nobody reads is recorded as accepted in full)
Call(by, op, code, data) ==
    [by |-> by, op |-> op, code |-> code, data |-> data,
     n |-> ChunkLen(data), err |-> "ok"]

\* a body write the real writer answered with res = (n, err)
BodyCall(by, op, data, res) ==
    [by |-> by, op |-> op, code |-> 0, data |-> data, n |-> res.n, err |-> res.err]

\* the answers a real writer that honours io.Writer can give to a write of
\* b: all of it accepted, or fewer bytes together with an error
RealWriteResults(b) ==
    {[n |-> ChunkLen(b), err |-> "ok"],
     [n |-> IF ChunkLen(b) > 1 THEN 1 ELSE 0, err |-> "EPIPE"]}

\* what a handler streams with ReadFrom: a file, or an empty reader
Sources == {Raw("file"), Raw("")}

HandlerHeaders == {"Content-Length", "Content-Type"}
HandlerCodes == {StatusOK, StatusNotFound}
CapProfiles == { {"Flusher", "Hijacker", "ReaderFrom"},   \* HTTP/1 connection
                 {"Flusher", "Pusher"},                   \* HTTP/2 stream
                 {"Flusher"},                             \* httptest recorder
                 {} }                                     \* bare writer
Accepts == { {}, {"text/html"} }

NoOp == [op |-> "none", code |-> 0, err |-> NilErr, ret |-> "", n |-> 0, data |-> NoData]
Op(op, code, err, ret) ==
    [op |-> op, code |-> code, err |-> err, ret |-> ret, n |-> 0, data |-> NoData]

\* a call that was given the bytes data and returned a byte count n and an
\* error ret
OpN(op, data, n, ret) ==
    [op |-> op, code |-> 0, err |-> NilErr, ret |-> ret, n |-> n, data |-> data]


(* ------------------- the real http.ResponseWriter ---------------------- *)
(* The writer the middleware was given.  It records the calls it receives; *)
(* what reaches the client is derived from the record the way net/http     *)
(* and httptest.ResponseRecorder behave: the first WriteHeader, or the     *)
(* first body write with an implicit 200, commits status and headers.      *)

CommitOps == {"WriteHeader", "Write", "ReadFrom"}
BodyOps == {"Write", "ReadFrom"}

\* a successful Hijack is recorded with code 1, a failed one with code 0
Took(e) == e.op = "Hijack" /\ e.code = 1

\* the calls that still reach the HTTP response: those before a takeover
\* (after it the real writer answers every call with http.ErrHijacked)
Effective(log) ==
    LET idx == {i \in 1..Len(log) : Took(log[i])}
    IN IF idx = {} THEN log
       ELSE SubSeq(log, 1, (CHOOSE i \in idx : \A j \in idx : i <= j) - 1)

\* index of the first call that commits the response, 0 when there is none
FirstCommit(log) ==
    LET eff == Effective(log)
        idx == {i \in 1..Len(eff) : eff[i].op \in CommitOps}
    IN IF idx = {} THEN 0 ELSE CHOOSE i \in idx : \A j \in idx : i <= j

\* status line on the wire, 0 while nothing is committed
wStatus(log) ==
    LET i == FirstCommit(log)
    IN IF i = 0 THEN 0
       ELSE IF log[i].op = "WriteHeader" THEN log[i].code ELSE StatusOK

\* who committed the status line
wStatusBy(log) ==
    LET i == FirstCommit(log) IN IF i = 0 THEN "nobody" ELSE log[i].by

\* body bytes on the wire, in order, each chunk with the party that wrote it
wBody(log) == SelectSeq(Effective(log), LAMBDA e : e.op \in BodyOps)

\* the header snapshot taken when a call commits the response
Snapshot(log, newlog, hdr, sent) ==
    IF FirstCommit(log) = 0 /\ FirstCommit(newlog) # 0
    THEN [committed |-> TRUE, hdr |-> hdr]
    ELSE sent

NotSent == [committed |-> FALSE, hdr |-> << >>]

\* Header().Set(key, value) by a party
HeaderSet(hdr, key, by, val) ==
    [k \in (DOMAIN hdr) \cup {key} |->
        IF k = key THEN [by |-> by, val |-> val] ELSE hdr[k]]

EmptyHeader == [k \in {} |-> [by |-> "", val |-> ""]]

(* --------------------------- ReportError ------------------------------- *)

\* faulty variant: the closure without its typed-nil guard
reportErrorNoGuard(cur, err) == err

\* faulty variant: the closure ignoring every value that means "no failure"
reportErrorSkipNil(cur, err) ==
    IF err.kind \in {"typednil", "nil"} THEN cur ELSE err

\* faulty variant: the closure keeping the first failure stored
reportErrorFirstWins(cur, err) ==
    IF err.kind = "typednil" \/ cur.kind # "nil" THEN cur ELSE err

\* the reportError closure of the middleware
reportError(cur, err) ==
    IF err.kind = "typednil" THEN cur ELSE err

(* --------------------------- responseWriter ---------------------------- *)

NewResponseWriter == [wroteHeader |-> FALSE, hijacked |-> FALSE, code |-> 0]

St(r, log) == [rw |-> r, log |-> log]

\* faulty variant: WriteHeader without the committed/hijacked guard
rwWriteHeaderNoGuard(r, log, code) ==
    St([r EXCEPT !.code = code, !.wroteHeader = TRUE],
       Append(log, Call("rw", "WriteHeader", code, NoData)))

\* faulty variant: WriteHeader that forwards but does not record the commitment
rwWriteHeaderNoTrack(r, log, code) ==
    IF r.wroteHeader \/ r.hijacked THEN St(r, log)
    ELSE St([r EXCEPT !.code = code],
            Append(log, Call("rw", "WriteHeader", code, NoData)))

\* faulty variant: WriteHeader guarded by the commitment flag alone
rwWriteHeaderAfterHijack(r, log, code) ==
    IF r.wroteHeader THEN St(r, log)
    ELSE St([r EXCEPT !.code = code, !.wroteHeader = TRUE],
            Append(log, Call("rw", "WriteHeader", code, NoData)))

\* responseWriter.WriteHeader
rwWriteHeader(r, log, code) ==
    IF r.wroteHeader \/ r.hijacked THEN St(r, log)
    ELSE St([r EXCEPT !.code = code, !.wroteHeader = TRUE],
            Append(log, Call("rw", "WriteHeader", code, NoData)))

Ret(r, log, n, ret) == [rw |-> r, log |-> log, n |-> n, ret |-> ret]

\* faulty variant: Write that forwards the bytes without committing first
rwWriteNoCommit(r, log, b, res) ==
    IF r.hijacked THEN Ret(r, log, 0, "ErrHijacked")
    ELSE Ret(r, Append(log, BodyCall("rw", "Write", b, res)), res.n, res.err)

\* faulty variant: Write that forwards to the real writer even after a takeover
rwWriteNoHijackGuard(r, log, b, res) ==
    LET s == IF ~r.wroteHeader THEN rwWriteHeader(r, log, StatusOK)
             ELSE St(r, log)
    IN Ret(s.rw, Append(s.log, BodyCall("rw", "Write", b, res)), res.n, res.err)

\* faulty variant: Write that reports every failure of the real writer as a
\* write of nothing
rwWriteMaskError(r, log, b, res) ==
    IF r.hijacked THEN Ret(r, log, 0, "ErrHijacked")
    ELSE LET s == IF ~r.wroteHeader THEN rwWriteHeader(r, log, StatusOK)
                  ELSE St(r, log)
         IN Ret(s.rw, Append(s.log, BodyCall("rw", "Write", b, res)),
                IF res.err = "ok" THEN res.n ELSE 0, res.err)

\* responseWriter.Write; res is the real writer's answer to the write
rwWrite(r, log, b, res) ==
    IF r.hijacked THEN Ret(r, log, 0, "ErrHijacked")
    ELSE LET s == IF ~r.wroteHeader THEN rwWriteHeader(r, log, StatusOK)
                  ELSE St(r, log)
         IN Ret(s.rw, Append(s.log, BodyCall("rw", "Write", b, res)),
                res.n, res.err)

\* faulty variant: ReadFrom that hands the reader over without committing
rwReadFromNoCommit(r, log, c, src, res) ==
    IF r.hijacked THEN Ret(r, log, 0, "ErrHijacked")
    ELSE IF "ReaderFrom" \in c
         THEN Ret(r, Append(log, BodyCall("rw", "ReadFrom", src, res)),
                  res.n, res.err)
         ELSE IF ChunkLen(src) = 0 THEN Ret(r, log, 0, "ok")
              ELSE Ret(r, Append(log, BodyCall("rw", "Write", src, res)),
                       res.n, res.err)

\* responseWriter.ReadFrom; the real writer either implements io.ReaderFrom
\* and is handed the reader, or receives its bytes through io.Copy, which
\* calls the real writer's Write for what it read (nothing for an empty
\* reader); res is the real writer's answer
rwReadFrom(r, log, c, src, res) ==
    IF r.hijacked THEN Ret(r, log, 0, "ErrHijacked")
    ELSE LET s == IF ~r.wroteHeader THEN rwWriteHeader(r, log, StatusOK)
                  ELSE St(r, log)
         IN IF "ReaderFrom" \in c
            THEN Ret(s.rw, Append(s.log, BodyCall("rw", "ReadFrom", src, res)),
                     res.n, res.err)
            ELSE IF ChunkLen(src) = 0 THEN Ret(s.rw, s.log, 0, "ok")
                 ELSE Ret(s.rw, Append(s.log, BodyCall("rw", "Write", src, res)),
                          res.n, res.err)

\* faulty variant: Flush that forwards the implicit status line without
\* recording the commitment
rwFlushNoTrack(r, log, c) ==
    IF r.hijacked THEN St(r, log)
    ELSE LET log1 == IF ~r.wroteHeader
                     THEN Append(log, Call("rw", "WriteHeader", StatusOK, NoData))
                     ELSE log
         IN IF "Flusher" \in c
            THEN St(r, Append(log1, Call("rw", "Flush", 0, NoData)))
            ELSE St(r, log1)

\* responseWriter.Flush
rwFlush(r, log, c) ==
    IF r.hijacked THEN St(r, log)
    ELSE LET s == IF ~r.wroteHeader THEN rwWriteHeader(r, log, StatusOK)
                  ELSE St(r, log)
         IN IF "Flusher" \in c
            THEN St(s.rw, Append(s.log, Call("rw", "Flush", 0, NoData)))
            ELSE s

\* what the real writer's Push can return
PushResults == {"ok", "ErrRecursivePush"}

\* faulty variant: Push that answers ErrNotSupported without asking the real writer
rwPushNeverDelegates(r, log, c, res) ==
    IF r.hijacked THEN [rw |-> r, log |-> log, ret |-> "ErrHijacked"]
    ELSE [rw |-> r, log |-> log, ret |-> "ErrNotSupported"]

\* responseWriter.Push; res is what the real writer's Push returns
rwPush(r, log, c, res) ==
    IF r.hijacked THEN [rw |-> r, log |-> log, ret |-> "ErrHijacked"]
    ELSE IF "Pusher" \in c
         THEN [rw |-> r,
               log |-> Append(log, [Call("rw", "Push", 0, NoData) EXCEPT !.err = res]),
               ret |-> res]
         ELSE [rw |-> r, log |-> log, ret |-> "ErrNotSupported"]

\* faulty variant: Hijack that does not record the takeover
rwHijackNoTrack(r, log, c, realOk) ==
    IF "Hijacker" \in c
    THEN [rw |-> r,
          log |-> Append(log, Call("rw", "Hijack", IF realOk THEN 1 ELSE 0, NoData)),
          ret |-> IF realOk THEN "ok" ELSE "error"]
    ELSE [rw |-> r, log |-> log, ret |-> "hijack not supported"]

\* responseWriter.Hijack; realOk is whether the real writer's Hijack succeeds
rwHijack(r, log, c, realOk) ==
    IF "Hijacker" \in c
    THEN [rw |-> IF realOk THEN [r EXCEPT !.hijacked = TRUE] ELSE r,
          log |-> Append(log, Call("rw", "Hijack", IF realOk THEN 1 ELSE 0, NoData)),
          ret |-> IF realOk THEN "ok" ELSE "error"]
    ELSE [rw |-> r, log |-> log, ret |-> "hijack not supported"]

\* faulty variant: Unwrap handing back the wrapper itself
rwUnwrapSelf(r) == "rw"

\* responseWriter.Unwrap: the writer the wrapper was built around
rwUnwrap(r) == "w"


(* ------------------------- error handlers ------------------------------ *)

Out(log, hdr, sent) == [log |-> log, hdr |-> hdr, sent |-> sent]

\* a call on the real writer by a party, with the header snapshot kept
RealCall(o, by, op, code, data) ==
    LET newlog == Append(o.log, Call(by, op, code, data))
    IN Out(newlog, o.hdr, Snapshot(o.log, newlog, o.hdr, o.sent))

\* strings.Contains(accept, "text/html") || strings.Contains(accept, "application/xhtml+xml")
UseHTML(acc) == "text/html" \in acc \/ "application/xhtml+xml" \in acc

\* faulty variant: an unrecognized fault rendered with its own text
RenderedLeaky(err) ==
    IF err.kind = "http" THEN err ELSE New(StatusInternalServerError, err.msg)

\* the *HttpError DefaultErrorHandler renders for an error value
Rendered(err) == IF err.kind = "http" THEN err ELSE InternalServerError

\* faulty variant: a JSON body without the status field
EncodeJSONMessageOnly(e) == [fmt |-> "json", status |-> 0, msg |-> e.msg]

\* json.NewEncoder(w).Encode(httpErr)
EncodeJSON(e) == [fmt |-> "json", status |-> e.status, msg |-> e.msg]

\* `<div class="http-error">` + Message + `</div>`
EncodeHTML(e) == [fmt |-> "html", status |-> 0, msg |-> e.msg]

\* DefaultErrorHandler: WriteHeader, then Content-Type, then the body
DefaultErrorHandler(o, acc, err) ==
    LET e == Rendered(err)
        o1 == RealCall(o, "eh", "WriteHeader", e.status, NoData)
        ct == IF UseHTML(acc) THEN "text/html; charset=utf-8"
              ELSE "application/json; charset=utf-8"
        o2 == Out(o1.log, HeaderSet(o1.hdr, "Content-Type", "eh", ct), o1.sent)
    IN RealCall(o2, "eh", "Write", 0,
                IF UseHTML(acc) THEN EncodeHTML(e) ELSE EncodeJSON(e))

\* a custom ErrorHandler: WriteHeader(StatusTeapot) and a body of its own
CustomErrorHandler(o, acc, err) ==
    LET o1 == RealCall(o, "eh", "WriteHeader", StatusTeapot, NoData)
    IN RealCall(o1, "eh", "Write", 0, [fmt |-> "custom", status |-> 0, msg |-> err.msg])

\* NewErrorReporterMiddleware: handler == nil selects DefaultErrorHandler
ErrorHandler(kind, o, acc, err) ==
    IF kind = "default" THEN DefaultErrorHandler(o, acc, err)
    ELSE CustomErrorHandler(o, acc, err)

(* ------------------- middleware: after the handler --------------------- *)

\* faulty variant: the decision ignoring the wrapper's commitment state
mwDecideIgnoreCommit(err, r) ==
    IF IsNonNilInterface(err) THEN "Substitute" ELSE "PassThrough"

\* faulty variant: the early return taken only when committed and hijacked at once
mwDecideBothFlags(err, r) ==
    IF IsNonNilInterface(err)
    THEN IF r.wroteHeader /\ r.hijacked THEN "PassThrough" ELSE "Substitute"
    ELSE "PassThrough"

\* faulty variant: the decision ignoring the takeover flag
mwDecideIgnoreHijack(err, r) ==
    IF IsNonNilInterface(err)
    THEN IF r.wroteHeader THEN "PassThrough" ELSE "Substitute"
    ELSE "PassThrough"

\* the decision taken once next.ServeHTTP has returned
mwDecide(err, r) ==
    IF IsNonNilInterface(err)
    THEN IF r.wroteHeader \/ r.hijacked THEN "PassThrough" ELSE "Substitute"
    ELSE "PassThrough"

\* faulty variant: the header map left as the handler set it
clearHeadersSkip(hdr) == hdr

\* for k := range headers { delete(headers, k) }
clearHeaders(hdr) == EmptyHeader


(* ------------- several requests on one middleware instance ------------ *)

\* the requests in flight
Reqs == {"A", "B"}

\* faulty variant: one handlerError variable shared by every request
NewSlotShared(q) == "A"

\* var handlerError error: a variable of its own for each call of the
\* handler func, named after the request it was declared for
NewSlot(q) == q

\* rw := &responseWriter{ResponseWriter: w}: a wrapper of its own for each
\* call of the handler func
NewWrapper(q) == q

\* faulty variant: ReportError that calls the reporter without testing that
\* the context holds one (a call of a nil func panics)
ReportErrorUnchecked(reporter, heap, err) ==
    IF reporter # "none"
    THEN [heap |-> [heap EXCEPT ![reporter] = reportError(@, err)], panicked |-> FALSE]
    ELSE [heap |-> heap, panicked |-> TRUE]

\* ReportError(r, err): reporter is the variable the reporter func found in
\* r.Context() assigns to, "none" when the context holds no reporter; heap
\* holds the handlerError variables
ReportError(reporter, heap, err) ==
    IF reporter # "none"
    THEN [heap |-> [heap EXCEPT ![reporter] = reportError(@, err)], panicked |-> FALSE]
    ELSE [heap |-> heap, panicked |-> FALSE]

\* a request before the server has dispatched it
Idle ==
    [pc |-> "idle", reporter |-> "none", rw |-> "none", ops |-> 0,
     reported |-> NilErr, outcome |-> "", panicked |-> FALSE]

\* the server before any request: req is each request's position and what
\* its context and handler hold, heap the handlerError variables, wrappers
\* the responseWriter values, sinks each request's real ResponseWriter,
\* last the latest step
NoRequests ==
    [req |-> [q \in Reqs |-> Idle],
     heap |-> [q \in Reqs |-> NilErr],
     wrappers |-> [q \in Reqs |-> NewResponseWriter],
     sinks |-> [q \in Reqs |-> Out(<< >>, EmptyHeader, NotSent)],
     last |-> [req |-> "none", op |-> "none", err |-> NilErr]]


\* httptest.NewRecorder(): Code 200, nothing written
NewRecorder ==
    [Code |-> StatusOK, wroteHeader |-> FALSE, HeaderMap |-> EmptyHeader,
     Body |-> "", Flushed |-> FALSE]

\* no constructor or helper has been called
NoCall == [fn |-> "none", code |-> 0, args |-> << >>, out |-> NilErr, got |-> << >>]


(* ------------------------------ Init ----------------------------------- *)

OuterHeaders == { EmptyHeader, HeaderSet(EmptyHeader, "X-Request-Id", "outer", "r1") }

\* the state when the middleware calls next.ServeHTTP(rw, r.WithContext(ctx))
Init ==
    /\ pc = "running"
    /\ handlerError = NilErr
    /\ rw = NewResponseWriter
    /\ wlog = << >>
    /\ wHeader \in OuterHeaders
    /\ wSent = NotSent
    /\ deleted = {}
    /\ lastOp = NoOp
    /\ nOps = 0
    /\ caps \in CapProfiles
    /\ ehKind \in {"default", "custom"}
    /\ accept \in Accepts
    /\ (ehKind = "custom" => accept = {})
    /\ ehCalls = 0
    /\ ehArg = NilErr
    /\ errAtReturn = NilErr
    /\ earlyReport = FALSE
    /\ bg = "none"
    /\ srv = NoRequests
    /\ errAtDecide = NilErr
    /\ lib = NoCall
    /\ recorder = NewRecorder
    /\ reports = << >>

(* ---------------- the next handler's operations ------------------------ *)

Running == pc = "running" /\ nOps < MaxOps

\* whether the failure stored after a report of e was reported while the
\* wrapper had neither committed nor been taken over
Early(old, new, e) ==
    IF ~IsNonNilInterface(new) THEN FALSE
    ELSE IF new = old /\ e # new THEN earlyReport
    ELSE ~rw.wroteHeader /\ ~rw.hijacked

MwFrame == UNCHANGED <<caps, ehKind, accept, ehCalls, ehArg, errAtReturn, deleted, srv, errAtDecide, lib, recorder, reports>>

\* apply a wrapper operation's result s (with fields rw, log) to the state
Apply(s, op) ==
    /\ rw' = s.rw
    /\ wlog' = s.log
    /\ wSent' = Snapshot(wlog, s.log, wHeader, wSent)
    /\ lastOp' = op
    /\ nOps' = nOps + 1
    /\ UNCHANGED <<pc, handlerError, wHeader, earlyReport, bg>>
    /\ MwFrame

\* w.Header().Set(k, v) through the wrapper (the embedded writer's map)
HSetHeader ==
    /\ Running
    /\ \E k \in HandlerHeaders :
         /\ wHeader' = HeaderSet(wHeader, k, "handler", "app")
         /\ lastOp' = Op("Header.Set", 0, NilErr, k)
    /\ nOps' = nOps + 1
    /\ UNCHANGED <<pc, handlerError, rw, wlog, wSent, earlyReport, bg>>
    /\ MwFrame

HWriteHeader ==
    /\ Running
    /\ \E c \in HandlerCodes :
         Apply(rwWriteHeader(rw, wlog, c), Op("WriteHeader", c, NilErr, ""))

HWrite ==
    /\ Running
    /\ \E res \in RealWriteResults(Raw("ok")) :
         LET s == rwWrite(rw, wlog, Raw("ok"), res)
         IN Apply(s, OpN("Write", Raw("ok"), s.n, s.ret))

HReadFrom ==
    /\ Running
    /\ \E src \in Sources : \E res \in RealWriteResults(src) :
         LET s == rwReadFrom(rw, wlog, caps, src, res)
         IN Apply(s, OpN("ReadFrom", src, s.n, s.ret))

HFlush ==
    /\ Running
    /\ Apply(rwFlush(rw, wlog, caps), Op("Flush", 0, NilErr, ""))

HPush ==
    /\ Running
    /\ \E res \in PushResults :
         LET s == rwPush(rw, wlog, caps, res)
         IN Apply(s, Op("Push", 0, NilErr, s.ret))

HHijack ==
    /\ Running
    /\ \E realOk \in BOOLEAN :
         LET s == rwHijack(rw, wlog, caps, realOk)
         IN Apply(s, Op("Hijack", 0, NilErr, s.ret))

\* rw.Unwrap().WriteHeader(c): a call on the real writer, past the wrapper
HUnwrapWriteHeader ==
    /\ Running
    /\ \E c \in HandlerCodes :
         Apply(IF rwUnwrap(rw) = "w"
               THEN St(rw, Append(wlog, Call("direct", "WriteHeader", c, NoData)))
               ELSE rwWriteHeader(rw, wlog, c),
               Op("Unwrap.WriteHeader", c, NilErr, ""))

\* rw.Unwrap().Write(b)
HUnwrapWrite ==
    /\ Running
    /\ Apply(IF rwUnwrap(rw) = "w"
             THEN St(rw, Append(wlog, Call("direct", "Write", 0, Raw("ok"))))
             ELSE rwWrite(rw, wlog, Raw("ok"), [n |-> ChunkLen(Raw("ok")), err |-> "ok"]),
             Op("Unwrap.Write", 0, NilErr, "ok"))

\* ReportError(r, err) with the request the middleware passed on
HReportError ==
    /\ Running
    /\ \E e \in Reportable :
         /\ handlerError' = reportError(handlerError, e)
         /\ earlyReport' = Early(handlerError, handlerError', e)
         /\ lastOp' = Op("ReportError", 0, e, "")
         /\ reports' = IF e \in RealErrors THEN Append(reports, e) ELSE reports
    /\ nOps' = nOps + 1
    /\ UNCHANGED <<pc, rw, wlog, wHeader, wSent, bg>>
    /\ UNCHANGED <<caps, ehKind, accept, ehCalls, ehArg, errAtReturn, deleted, srv,
                   errAtDecide, lib, recorder>>

\* next.ServeHTTP returns
HReturn ==
    /\ pc = "running"
    /\ pc' = "decide"
    /\ errAtReturn' = handlerError
    /\ lastOp' = Op("return", 0, NilErr, "")
    /\ UNCHANGED <<handlerError, rw, wlog, wHeader, wSent, deleted, nOps, caps,
                   ehKind, accept, ehCalls, ehArg, earlyReport, bg, srv, errAtDecide, lib, recorder, reports>>

(* ------------------- the middleware's own steps ------------------------ *)

\* if handlerError != nil { if rw.wroteHeader || rw.hijacked { return } ...
MwDecide ==
    /\ pc = "decide"
    /\ pc' = IF mwDecide(handlerError, rw) = "Substitute" THEN "clear" ELSE "done"
    /\ errAtDecide' = handlerError
    /\ lastOp' = Op("decide", 0, handlerError, mwDecide(handlerError, rw))
    /\ UNCHANGED <<handlerError, rw, wlog, wHeader, wSent, deleted, nOps, caps,
                   ehKind, accept, ehCalls, ehArg, errAtReturn, earlyReport, bg, srv, lib, recorder, reports>>

\* headers := w.Header(); delete every key
MwClear ==
    /\ pc = "clear"
    /\ pc' = "invoke"
    /\ wHeader' = clearHeaders(wHeader)
    /\ deleted' = (DOMAIN wHeader) \ (DOMAIN wHeader')
    /\ lastOp' = Op("clear", 0, NilErr, "")
    /\ UNCHANGED <<handlerError, rw, wlog, wSent, nOps, caps, ehKind, accept,
                   ehCalls, ehArg, errAtReturn, earlyReport, bg, srv, errAtDecide, lib, recorder, reports>>

\* faulty variant: the error handler is called once more after it returned
AfterInvokeRepeat == "invoke"

\* faulty variant: the next handler is run again after the error handler returned
AfterInvokeRerun == "running"

\* where the middleware stands once handler(w, r, handlerError) has
\* returned: at the end of the function
AfterInvoke == "done"

\* handler(w, r, handlerError)
MwInvoke ==
    /\ pc = "invoke"
    /\ pc' = AfterInvoke
    /\ ehCalls' = ehCalls + 1
    /\ ehArg' = handlerError
    /\ LET o == ErrorHandler(ehKind, Out(wlog, wHeader, wSent), accept, handlerError)
       IN /\ wlog' = o.log
          /\ wHeader' = o.hdr
          /\ wSent' = o.sent
    /\ lastOp' = Op("invoke", 0, handlerError, "")
    /\ UNCHANGED <<handlerError, rw, deleted, nOps, caps, ehKind, accept,
                   errAtReturn, earlyReport, bg, srv, errAtDecide, lib, recorder, reports>>

(* -------------------- a goroutine the handler started ------------------ *)

\* go func() { ... ReportError(r, err) ... }()
HSpawn ==
    /\ Running
    /\ bg = "none"
    /\ bg' = "live"
    /\ lastOp' = Op("go", 0, NilErr, "")
    /\ nOps' = nOps + 1
    /\ UNCHANGED <<pc, handlerError, rw, wlog, wHeader, wSent, earlyReport>>
    /\ MwFrame

\* the goroutine's ReportError, at any moment of the request
BgReportError ==
    /\ bg = "live"
    /\ bg' = "finished"
    /\ \E e \in Reportable :
         /\ handlerError' = reportError(handlerError, e)
         /\ earlyReport' = Early(handlerError, handlerError', e)
         /\ lastOp' = Op("bg.ReportError", 0, e, pc)
    /\ UNCHANGED <<pc, rw, wlog, wHeader, wSent, nOps>>
    /\ MwFrame

(* --------------------------- specifications ---------------------------- *)

Handler ==
    \/ HSetHeader \/ HWriteHeader \/ HWrite \/ HReadFrom \/ HFlush \/ HPush
    \/ HHijack \/ HUnwrapWriteHeader \/ HUnwrapWrite \/ HReportError \/ HReturn

Middleware == MwDecide \/ MwClear \/ MwInvoke

Next == Handler \/ Middleware

\* one request whose handler reports from its own goroutine only
Spec == Init /\ [][Next]_vars

NextBg == Next \/ HSpawn \/ BgReportError

\* one request whose handler may start a goroutine that reports on its own
SpecBg == Init /\ [][NextBg]_vars

\* a request served on an HTTP/1 connection with no header set before the
\* middleware
InitHTTP1 ==
    /\ Init
    /\ caps = {"Flusher", "Hijacker", "ReaderFrom"}
    /\ wHeader = EmptyHeader

\* the middleware's code after next.ServeHTTP is straight-line code of the
\* request's goroutine: once the handler has returned it runs to its end
SpecFair == InitHTTP1 /\ [][Next]_vars /\ WF_vars(Middleware)

(* ----------------- constructors and ReportX helpers -------------------- *)

\* the catalog constructors and the http.Status constant each one uses
Catalog ==
    [BadRequest |-> 400, Unauthorized |-> 401, PaymentRequired |-> 402,
     Forbidden |-> 403, NotFound |-> 404, MethodNotAllowed |-> 405,
     NotAcceptable |-> 406, ProxyAuthRequired |-> 407, RequestTimeout |-> 408,
     Conflict |-> 409, Gone |-> 410, LengthRequired |-> 411,
     PreconditionFailed |-> 412, PayloadTooLarge |-> 413, URITooLong |-> 414,
     UnsupportedMediaType |-> 415, RangeNotSatisfiable |-> 416,
     ExpectationFailed |-> 417, Teapot |-> 418, MisdirectedRequest |-> 421,
     UnprocessableEntity |-> 422, Locked |-> 423, FailedDependency |-> 424,
     TooEarly |-> 425, UpgradeRequired |-> 426, PreconditionRequired |-> 428,
     TooManyRequests |-> 429, RequestHeaderFieldsTooLarge |-> 431,
     UnavailableForLegalReasons |-> 451, InternalServerError |-> 500,
     NotImplemented |-> 501, BadGateway |-> 502, ServiceUnavailable |-> 503,
     GatewayTimeout |-> 504, HTTPVersionNotSupported |-> 505,
     VariantAlsoNegotiates |-> 506, InsufficientStorage |-> 507,
     LoopDetected |-> 508, NotExtended |-> 510,
     NetworkAuthenticationRequired |-> 511]

\* the variadic message argument: none, one, an empty one, two
Messages == {<< >>, <<"custom">>, <<"">>, <<"first", "second">>}

\* arguments given to New
NewStatuses == {0, 99, 100, 404, 599, 600}
NewMessages == {"", "user missing"}

\* faulty variant: a constructor that always uses the reason phrase
ConstructorPhraseOnly(name, message) ==
    New(Catalog[name], StatusText(Catalog[name]))

\* a catalog constructor: msg := http.StatusText(code); if len(message) > 0
\* { msg = message[0] }; return New(code, msg)
Constructor(name, message) ==
    LET msg == IF Len(message) > 0 THEN message[1] ELSE StatusText(Catalog[name])
    IN New(Catalog[name], msg)

\* ReportError(r, err) for a request whose context holds the reporter of a
\* test (it appends what it is given to got), or no reporter
ReportErrorTo(bound, got, err) == IF bound THEN Append(got, err) ELSE got

\* the ReportX helper of each constructor X
ReportNames ==
    {"ReportBadRequest", "ReportUnauthorized", "ReportPaymentRequired",
     "ReportForbidden", "ReportNotFound", "ReportMethodNotAllowed",
     "ReportNotAcceptable", "ReportProxyAuthRequired", "ReportRequestTimeout",
     "ReportConflict", "ReportGone", "ReportLengthRequired",
     "ReportPreconditionFailed", "ReportPayloadTooLarge", "ReportURITooLong",
     "ReportUnsupportedMediaType", "ReportRangeNotSatisfiable",
     "ReportExpectationFailed", "ReportTeapot", "ReportMisdirectedRequest",
     "ReportUnprocessableEntity", "ReportLocked", "ReportFailedDependency",
     "ReportTooEarly", "ReportUpgradeRequired", "ReportPreconditionRequired",
     "ReportTooManyRequests", "ReportRequestHeaderFieldsTooLarge",
     "ReportUnavailableForLegalReasons", "ReportInternalServerError",
     "ReportNotImplemented", "ReportBadGateway", "ReportServiceUnavailable",
     "ReportGatewayTimeout", "ReportHTTPVersionNotSupported",
     "ReportVariantAlsoNegotiates", "ReportInsufficientStorage",
     "ReportLoopDetected", "ReportNotExtended",
     "ReportNetworkAuthenticationRequired"}

\* the constructor a ReportX helper calls
Reported(helper) == CHOOSE name \in DOMAIN Catalog : helper = "Report" \o name

\* faulty variant: a helper that reports twice
ReportXTwice(helper, bound, message) ==
    LET e == Constructor(Reported(helper), message)
    IN ReportErrorTo(bound, ReportErrorTo(bound, << >>, e), e)

\* ReportX(r, message...): ReportError(r, X(message...)); the result is what
\* the reporter has been given
ReportX(helper, bound, message) ==
    ReportErrorTo(bound, << >>, Constructor(Reported(helper), message))

LibFrame ==
    UNCHANGED <<pc, handlerError, rw, wlog, wHeader, wSent, deleted, lastOp, nOps,
                caps, ehKind, accept, ehCalls, ehArg, errAtReturn, earlyReport, bg,
                srv, errAtDecide, recorder, reports>>

\* New(status, message)
CallNew ==
    /\ \E status \in NewStatuses : \E message \in NewMessages :
         lib' = [fn |-> "New", code |-> status, args |-> <<message>>,
                 out |-> New(status, message), got |-> << >>]
    /\ LibFrame

\* X(message...) for a catalog constructor X
CallConstructor ==
    /\ \E name \in DOMAIN Catalog : \E message \in Messages :
         lib' = [fn |-> name, code |-> 0, args |-> message,
                 out |-> Constructor(name, message), got |-> << >>]
    /\ LibFrame

\* ReportX(r, message...) with a request with (code 1) or without (code 0)
\* a reporter in its context
CallReportX ==
    /\ \E helper \in ReportNames : \E bound \in BOOLEAN : \E message \in Messages :
         lib' = [fn |-> helper, code |-> IF bound THEN 1 ELSE 0, args |-> message,
                 out |-> NilErr, got |-> ReportX(helper, bound, message)]
    /\ LibFrame

NextLib == CallNew \/ CallConstructor \/ CallReportX

\* a program that has called nothing yet
InitLib == InitHTTP1 /\ ehKind = "default" /\ accept = {}

\* calls of the constructors and helpers, in any order
SpecLib == InitLib /\ [][NextLib]_vars

(* ------------- the buffering variant of the middleware ----------------- *)

\* reportError closure of the buffering variant: handlerError = err
reportErrorBuf(cur, err) == err

\* ResponseRecorder.WriteHeader: the first call sets Code
recWriteHeader(rec, code) ==
    IF rec.wroteHeader THEN rec
    ELSE [rec EXCEPT !.wroteHeader = TRUE, !.Code = code]

\* ResponseRecorder.Write: commits 200 when nothing was committed, then
\* appends to Body
recWrite(rec, b) ==
    LET r1 == recWriteHeader(rec, StatusOK)
    IN [r1 EXCEPT !.Body = @ \o b.msg]

\* ResponseRecorder.Flush
recFlush(rec) == [recWriteHeader(rec, StatusOK) EXCEPT !.Flushed = TRUE]

\* DefaultErrorHandler of the buffering variant: Content-Type first, then
\* the status and the JSON body of the *HttpError, or of InternalServerError()
\* for any other error; a nil *HttpError passes the type assertion and the
\* read of httpErr.Status panics before anything is written
DefaultErrorHandlerBuf(o, err) ==
    LET o1 == Out(o.log, HeaderSet(o.hdr, "Content-Type", "eh",
                                   "application/json; charset=utf-8"), o.sent)
        e == IF err.kind = "http" THEN err ELSE InternalServerError
        o2 == RealCall(o1, "eh", "WriteHeader", e.status, NoData)
    IN IF err.kind = "typednil" THEN o1
       ELSE RealCall(o2, "eh", "Write", 0, EncodeJSON(e))

\* the error handler the buffering middleware was built with
ErrorHandlerBuf(kind, o, acc, err) ==
    IF kind = "default" THEN DefaultErrorHandlerBuf(o, err)
    ELSE CustomErrorHandler(o, acc, err)

\* faulty variant: the recorded response is dropped only when the handler
\* recorded nothing
bufDecideUnlessWritten(err, rec) ==
    IF IsNonNilInterface(err) /\ ~rec.wroteHeader THEN "Substitute" ELSE "Replay"

\* if handlerError != nil { handler(...) } else { replay }
bufDecide(err, rec) ==
    IF IsNonNilInterface(err) THEN "Substitute" ELSE "Replay"

\* the else branch: copy every recorded header to w, w.WriteHeader(
\* recorder.Code), recorder.Body.WriteTo(w) (no Write for an empty body)
Replay(o, rec) ==
    LET hdr == [k \in (DOMAIN o.hdr) \cup (DOMAIN rec.HeaderMap) |->
                  IF k \in DOMAIN rec.HeaderMap THEN rec.HeaderMap[k] ELSE o.hdr[k]]
        o1 == RealCall(Out(o.log, hdr, o.sent), "mw", "WriteHeader", rec.Code, NoData)
    IN IF rec.Body = "" THEN o1
       ELSE RealCall(o1, "mw", "Write", 0, Raw(rec.Body))

BufFrame ==
    UNCHANGED <<rw, deleted, caps, ehKind, accept, earlyReport, bg, srv,
                errAtDecide, lib, reports>>

\* an operation of the next handler on the recorder
Record(rec, op) ==
    /\ Running
    /\ recorder' = rec
    /\ lastOp' = op
    /\ nOps' = nOps + 1
    /\ UNCHANGED <<pc, handlerError, wlog, wHeader, wSent, ehCalls, ehArg, errAtReturn>>
    /\ BufFrame

BSetHeader ==
    \E k \in HandlerHeaders :
        Record([recorder EXCEPT !.HeaderMap = HeaderSet(@, k, "handler", "app")],
               Op("Header.Set", 0, NilErr, k))

BWriteHeader ==
    \E c \in HandlerCodes :
        Record(recWriteHeader(recorder, c), Op("WriteHeader", c, NilErr, ""))

BWrite == Record(recWrite(recorder, Raw("ok")), OpN("Write", Raw("ok"), 2, "ok"))

BFlush == Record(recFlush(recorder), Op("Flush", 0, NilErr, ""))

BReportError ==
    /\ Running
    /\ \E e \in Reportable :
         /\ handlerError' = reportErrorBuf(handlerError, e)
         /\ lastOp' = Op("ReportError", 0, e, "")
    /\ nOps' = nOps + 1
    /\ UNCHANGED <<pc, recorder, wlog, wHeader, wSent, ehCalls, ehArg, errAtReturn>>
    /\ BufFrame

\* next.ServeHTTP(recorder, ...) returns
BReturn ==
    /\ pc = "running"
    /\ pc' = "decide"
    /\ errAtReturn' = handlerError
    /\ lastOp' = Op("return", 0, NilErr, "")
    /\ UNCHANGED <<handlerError, recorder, wlog, wHeader, wSent, nOps, ehCalls, ehArg>>
    /\ BufFrame

\* handler(w, r, handlerError)
BInvoke ==
    /\ pc = "decide"
    /\ bufDecide(handlerError, recorder) = "Substitute"
    /\ pc' = "done"
    /\ ehCalls' = ehCalls + 1
    /\ ehArg' = handlerError
    /\ LET o == ErrorHandlerBuf(ehKind, Out(wlog, wHeader, wSent), accept, handlerError)
       IN /\ wlog' = o.log
          /\ wHeader' = o.hdr
          /\ wSent' = o.sent
    /\ lastOp' = Op("invoke", 0, handlerError, "")
    /\ UNCHANGED <<handlerError, recorder, nOps, errAtReturn>>
    /\ BufFrame

\* the recorded response is copied to w
BReplay ==
    /\ pc = "decide"
    /\ bufDecide(handlerError, recorder) = "Replay"
    /\ pc' = "done"
    /\ LET o == Replay(Out(wlog, wHeader, wSent), recorder)
       IN /\ wlog' = o.log
          /\ wHeader' = o.hdr
          /\ wSent' = o.sent
    /\ lastOp' = Op("replay", 0, NilErr, "")
    /\ UNCHANGED <<handlerError, recorder, nOps, ehCalls, ehArg, errAtReturn>>
    /\ BufFrame

NextBuf ==
    \/ BSetHeader \/ BWriteHeader \/ BWrite \/ BFlush \/ BReportError
    \/ BReturn \/ BInvoke \/ BReplay

\* the state when the buffering middleware calls next.ServeHTTP(recorder, ...)
InitBuf == Init /\ caps = {} /\ accept = {}

\* one request through the buffering variant
SpecBuf == InitBuf /\ [][NextBuf]_vars

(* --------- several requests served by one middleware instance ---------- *)

ConcFrame ==
    UNCHANGED <<pc, handlerError, rw, wlog, wHeader, wSent, deleted, lastOp, nOps,
                caps, ehKind, accept, ehCalls, ehArg, errAtReturn, earlyReport, bg,
                errAtDecide, lib, recorder, reports>>

\* the request's context holds a reporter: it came through the middleware
Through(q) == srv.req[q].reporter # "none"

Last(q, op, e) == [req |-> q, op |-> op, err |-> e]

\* the server calls the handler for request q: through the middleware (a new
\* handlerError, a reporter in the context, a new wrapper), or the
\* application handler at once with the real writer and the bare request
Serve(q) ==
    /\ srv.req[q].pc = "idle"
    /\ \E through \in BOOLEAN :
         srv' = IF through
                THEN [srv EXCEPT !.req[q] = [@ EXCEPT !.pc = "running",
                                                      !.reporter = NewSlot(q),
                                                      !.rw = NewWrapper(q)],
                                 !.heap[NewSlot(q)] = NilErr,
                                 !.wrappers[NewWrapper(q)] = NewResponseWriter,
                                 !.last = Last(q, "serve", NilErr)]
                ELSE [srv EXCEPT !.req[q].pc = "running",
                                 !.last = Last(q, "serve", NilErr)]
    /\ ConcFrame

CanAct(q) == srv.req[q].pc = "running" /\ srv.req[q].ops < MaxReqOps

\* ReportError(r, err) in the handler of request q
CReportError(q) ==
    /\ CanAct(q)
    /\ \E e \in Reportable :
         LET o == ReportError(srv.req[q].reporter, srv.heap, e)
         IN srv' = [srv EXCEPT
                      !.heap = o.heap,
                      !.req[q] = [@ EXCEPT
                          !.ops = @ + 1,
                          !.panicked = o.panicked,
                          !.reported = IF Through(q) THEN reportError(@, e) ELSE @],
                      !.last = Last(q, "ReportError", e)]
    /\ ConcFrame

\* the effect on request q of a call s on its wrapper, or of the call e on
\* the real writer when the handler holds the real writer itself
ApplyTo(q, op, s, e) ==
    /\ srv' = IF Through(q)
              THEN [srv EXCEPT
                      !.wrappers[srv.req[q].rw] = s.rw,
                      !.sinks[q] = Out(s.log, @.hdr,
                                       Snapshot(@.log, s.log, @.hdr, @.sent)),
                      !.req[q].ops = @ + 1,
                      !.last = Last(q, op, NilErr)]
              ELSE [srv EXCEPT
                      !.sinks[q] = RealCall(@, "direct", e.op, e.code, e.data),
                      !.req[q].ops = @ + 1,
                      !.last = Last(q, op, NilErr)]
    /\ ConcFrame

\* the wrapper request q's handler holds (a fresh value when it holds none)
WrapperOf(q) ==
    IF Through(q) THEN srv.wrappers[srv.req[q].rw] ELSE NewResponseWriter

\* w.WriteHeader(c) in the handler of request q
CWriteHeader(q) ==
    /\ CanAct(q)
    /\ \E c \in HandlerCodes :
         ApplyTo(q, "WriteHeader",
                 rwWriteHeader(WrapperOf(q), srv.sinks[q].log, c),
                 Call("direct", "WriteHeader", c, NoData))

\* w.Write(b) in the handler of request q
CWrite(q) ==
    /\ CanAct(q)
    /\ \E res \in RealWriteResults(Raw("ok")) :
         ApplyTo(q, "Write",
                 rwWrite(WrapperOf(q), srv.sinks[q].log, Raw("ok"), res),
                 Call("direct", "Write", 0, Raw("ok")))

\* a successful Hijack in the handler of request q
CHijack(q) ==
    /\ CanAct(q)
    /\ ApplyTo(q, "Hijack",
               rwHijack(WrapperOf(q), srv.sinks[q].log, {"Hijacker"}, TRUE),
               Call("direct", "Hijack", 1, NoData))

\* the handler of request q returns: to the middleware, or to the server
CReturn(q) ==
    /\ srv.req[q].pc = "running"
    /\ srv' = [srv EXCEPT
                 !.req[q] = [@ EXCEPT
                     !.pc = IF Through(q) THEN "decide" ELSE "done",
                     !.outcome = IF Through(q) THEN @ ELSE "Direct"],
                 !.last = Last(q, "return", NilErr)]
    /\ ConcFrame

\* the middleware's decision for request q
CDecide(q) ==
    /\ srv.req[q].pc = "decide"
    /\ LET d == mwDecide(srv.heap[srv.req[q].reporter], WrapperOf(q))
       IN srv' = [srv EXCEPT
                    !.req[q] = [@ EXCEPT
                        !.pc = IF d = "Substitute" THEN "invoke" ELSE "done",
                        !.outcome = d],
                    !.last = Last(q, "decide", srv.heap[srv.req[q].reporter])]
    /\ ConcFrame

\* the middleware clears request q's headers and calls the error handler
CInvoke(q) ==
    /\ srv.req[q].pc = "invoke"
    /\ LET e == srv.heap[srv.req[q].reporter]
           w == srv.sinks[q]
       IN srv' = [srv EXCEPT
                    !.sinks[q] = ErrorHandler(ehKind,
                                     Out(w.log, clearHeaders(w.hdr), w.sent),
                                     accept, e),
                    !.req[q].pc = AfterInvoke,
                    !.last = Last(q, "invoke", e)]
    /\ ConcFrame

NextConc ==
    \E q \in Reqs :
        \/ Serve(q) \/ CReportError(q) \/ CWriteHeader(q) \/ CWrite(q)
        \/ CHijack(q) \/ CReturn(q) \/ CDecide(q) \/ CInvoke(q)

\* a middleware instance built with handler == nil, before any request
InitConc == InitHTTP1 /\ ehKind = "default" /\ accept = {}

\* two requests handled concurrently, in every interleaving of their steps
SpecConc == InitConc /\ [][NextConc]_vars


(* ------------------------------ claims --------------------------------- *)

\* calls on the real writer made by a party
ByParty(log, parties) == SelectSeq(log, LAMBDA e : e.by \in parties)

\* the handler wrote nothing to the real writer past the wrapper
NoDirect == ByParty(wlog, {"direct"}) = << >>

\* the middleware has left the real writer alone since the handler returned
Untouched == deleted = {} /\ ByParty(wlog, {"eh"}) = << >> /\ ehCalls = 0

\* what line 198-204 reads once the handler has returned
Substitutable == handlerError # NilErr /\ ~rw.wroteHeader /\ ~rw.hijacked

Decided == pc \in {"clear", "invoke", "done"}
Substituting == pc \in {"clear", "invoke"} \/ (pc = "done" /\ ehCalls > 0)

\* C1: once the next handler has returned, the error handler is invoked if
\* and only if a non-nil failure is stored, wroteHeader is false and hijacked
\* is false; in every other combination the middleware deletes no header
\* from and writes nothing to the real ResponseWriter.
C1_InvokedIffSubstitutable ==
    /\ Decided => (Substituting <=> Substitutable)
    /\ (pc = "done" /\ Substitutable) => ehCalls = 1
    /\ (Decided /\ ~Substitutable) => Untouched
    /\ pc \in {"running", "decide"} => Untouched

C1_Witness ==
    /\ pc = "done" /\ ehCalls = 1 /\ handlerError \in RealErrors
    /\ ByParty(wlog, {"eh"}) # << >>

\* C2 as stated: a failure reported while nothing was committed (and still
\* stored) always ends in the error handler's response, whatever the handler
\* does after the report.
C2_EarlyReportAlwaysSubstituted ==
    (pc = "done" /\ earlyReport) =>
        /\ ehCalls = 1
        /\ wStatusBy(wlog) = "eh"
        /\ \A i \in 1..Len(wBody(wlog)) : wBody(wlog)[i].by = "eh"

\* C2 amended: if a failure is stored and the wrapper is neither committed
\* nor hijacked when the handler returns, the error handler is invoked once
\* with that failure, no status or body forwarded by the wrapper is on the
\* real writer, and unless the handler wrote past the wrapper the status and
\* the whole body are the error handler's.
C2_SubstitutedWhenUncommittedAtReturn ==
    (pc = "done" /\ errAtReturn # NilErr /\ ~rw.wroteHeader /\ ~rw.hijacked) =>
        /\ ehCalls = 1 /\ ehArg = errAtReturn
        /\ \A i \in 1..Len(wlog) :
              wlog[i].by = "rw" => wlog[i].op \notin CommitOps
        /\ NoDirect =>
              /\ wStatusBy(wlog) = "eh"
              /\ wBody(wlog) # << >>
              /\ \A i \in 1..Len(wBody(wlog)) : wBody(wlog)[i].by = "eh"

C2_Witness ==
    /\ pc = "done" /\ earlyReport /\ ehCalls = 1 /\ NoDirect
    /\ wStatus(wlog) = Rendered(errAtReturn).status
    /\ ehKind = "default"

\* handler-written status or body bytes and error-handler output on one response
Mixed(log) ==
    /\ \E i \in 1..Len(log) : log[i].by \in {"rw", "direct"} /\ log[i].op \in CommitOps
    /\ \E j \in 1..Len(log) : log[j].by = "eh"

\* C3 as stated: for every sequence of handler operations, Unwrap included,
\* the real writer never holds handler-written status or body bytes together
\* with error-handler output.
C3_NeverMixed == ~Mixed(wlog)

\* C3 amended: as long as the handler writes only through the wrapper (not
\* to the writer Unwrap returns), the real writer holds either only what the
\* handler produced or only what the error handler produced.
C3_NeverMixedThroughWrapper ==
    NoDirect =>
        /\ ~Mixed(wlog)
        /\ ehCalls > 0 => \A k \in DOMAIN wHeader : wHeader[k].by = "eh"
        /\ ehCalls = 0 => \A k \in DOMAIN wHeader : wHeader[k].by # "eh"

C3_Witness ==
    /\ pc = "done" /\ NoDirect /\ handlerError \in RealErrors
    /\ rw.wroteHeader /\ wBody(wlog) # << >> /\ earlyReport

\* C4: when the handler commits through the wrapper and reports a failure
\* afterwards, the error handler is not invoked and the status and body on
\* the real writer are those the handler wrote.
C4_CommittedThenReported ==
    (Decided /\ rw.wroteHeader) =>
        /\ Untouched
        /\ pc = "done"
        /\ wStatusBy(wlog) = "rw" => wStatus(wlog) = rw.code
        /\ \A i \in 1..Len(wBody(wlog)) : wBody(wlog)[i].by \in {"rw", "direct"}

C4_Witness ==
    /\ pc = "done" /\ rw.wroteHeader /\ ~rw.hijacked
    /\ handlerError \in RealErrors /\ ~earlyReport
    /\ wStatus(wlog) = StatusNotFound /\ wBody(wlog) # << >>

\* C5: once Hijack on the wrapper has succeeded, the middleware deletes no
\* header and calls neither WriteHeader nor Write on the real writer,
\* whatever was reported and whether or not the response was committed.
C5_HijackWins ==
    rw.hijacked => (Untouched /\ pc \notin {"clear", "invoke"})

C5_Witness ==
    /\ pc = "done" /\ rw.hijacked /\ ~rw.wroteHeader
    /\ handlerError \in RealErrors /\ earlyReport

Forwarded(log) == SelectSeq(log, LAMBDA e : e.by = "rw" /\ e.op = "WriteHeader")

\* C7: the wrapper's code is the status of the first committing call (the
\* WriteHeader argument, or 200 when that call is a Write), exactly one
\* WriteHeader is forwarded to the real writer, and a later WriteHeader
\* changes neither the wrapper nor anything on the real writer.
C7_FirstStatusWins ==
    [][ /\ (lastOp'.op = "WriteHeader" /\ ~rw.wroteHeader /\ ~rw.hijacked) =>
              (rw'.wroteHeader /\ rw'.code = lastOp'.code)
        /\ (lastOp'.op = "Write" /\ ~rw.wroteHeader /\ ~rw.hijacked) =>
              (rw'.wroteHeader /\ rw'.code = StatusOK)
        /\ (lastOp'.op = "WriteHeader" /\ rw.wroteHeader) =>
              (rw' = rw /\ wlog' = wlog /\ wHeader' = wHeader /\ wSent' = wSent)
        /\ rw.wroteHeader => (rw'.wroteHeader /\ rw'.code = rw.code)
        /\ Len(Forwarded(wlog')) = (IF rw'.wroteHeader THEN 1 ELSE 0)
        /\ rw'.wroteHeader => Forwarded(wlog')[1].code = rw'.code
      ]_vars

C7_Witness ==
    /\ lastOp.op = "WriteHeader" /\ rw.wroteHeader /\ ~rw.hijacked
    /\ lastOp.code # rw.code
    /\ Len(Forwarded(wlog)) = 1

\* C8: reporting a nil *HttpError changes nothing that decides the outcome
\* (the stored failure, the wrapper, the real writer), so the request ends
\* as it would without the call, and the error handler never receives a
\* typed nil (no generic 500 is rendered for it).
C8_TypedNilIsNoReport ==
    /\ [][ (lastOp'.op = "ReportError" /\ lastOp'.err = TypedNil) =>
              UNCHANGED <<pc, handlerError, rw, wlog, wHeader, wSent, deleted,
                          ehCalls, ehArg, earlyReport>> ]_vars
    /\ [](handlerError # TypedNil /\ (ehCalls > 0 => ehArg # TypedNil))

C8_Witness ==
    /\ lastOp.op = "ReportError" /\ lastOp.err = TypedNil
    /\ handlerError = NilErr /\ nOps = 1

\* C9: a ReportError of a value that means "no failure" (the nil error or a
\* nil *HttpError) leaves the stored failure as it was.
C9_NoFailureReportIsNoOp ==
    [][ (lastOp'.op = "ReportError" /\ lastOp'.err \in {NilErr, TypedNil}) =>
           handlerError' = handlerError ]_vars

\* C10: a ReportError made by the handler's goroutine after the handler has
\* returned changes neither whether the error handler is invoked nor the
\* failure it receives: both are fixed by what was stored at the return.
C10_LateReportDropped ==
    pc = "done" =>
        /\ (ehCalls > 0) <=>
              (errAtReturn # NilErr /\ ~rw.wroteHeader /\ ~rw.hijacked)
        /\ ehCalls > 0 => ehArg = errAtReturn

(* ---------------- the wrapper's optional capabilities ------------------ *)

\* the step is a call of the wrapper's method op by the handler
Called(op) == lastOp'.op = op /\ nOps' = nOps + 1

\* the real writer received a call during the step
Reached == Len(wlog') = Len(wlog) + 1

\* nothing was forwarded and the wrapper is as it was
WrapperIdle == rw' = rw /\ wlog' = wlog

\* C15: a Hijack that the real writer supports and carries out sets hijacked,
\* and hijacked then stays true under every later operation, later failed
\* Hijack calls included; a Hijack the real writer does not support or
\* answers with an error returns an error and leaves wroteHeader, hijacked
\* and code as they were.
C15_HijackFlag ==
    [][ /\ rw.hijacked => rw'.hijacked
        /\ Called("Hijack") =>
              IF "Hijacker" \in caps /\ Reached /\ Took(wlog'[Len(wlog')])
              THEN lastOp'.ret = "ok" /\ rw'.hijacked
                   /\ rw'.wroteHeader = rw.wroteHeader /\ rw'.code = rw.code
              ELSE lastOp'.ret # "ok" /\ rw' = rw
      ]_vars

C15_Witness ==
    /\ lastOp.op = "Hijack" /\ lastOp.ret = "error"
    /\ rw.hijacked
    /\ \E i \in 1..Len(wlog) : Took(wlog[i])

\* C16: on a hijacked wrapper every Write and ReadFrom returns
\* http.ErrHijacked with a byte count of zero, forwards nothing to the real
\* writer and leaves wroteHeader and code as they were.
C16_WriteAfterHijack ==
    [][ (rw.hijacked /\ (Called("Write") \/ Called("ReadFrom"))) =>
           /\ lastOp'.ret = "ErrHijacked"
           /\ lastOp'.n = 0
           /\ WrapperIdle
      ]_vars

C16_Witness ==
    /\ lastOp.op \in {"Write", "ReadFrom"} /\ lastOp.ret = "ErrHijacked"
    /\ rw.hijacked /\ ~rw.wroteHeader
    /\ Forwarded(wlog) = << >>

\* C17: Flush on a hijacked wrapper, and Flush on a wrapper whose real
\* writer is no http.Flusher, changes nothing: wroteHeader, hijacked and
\* code stay as they were and neither a status line nor a flush reaches the
\* real writer; in every other case the real writer's Flush is called.
C17_FlushNoOp ==
    [][ Called("Flush") =>
           IF rw.hijacked \/ "Flusher" \notin caps
           THEN WrapperIdle
           ELSE wlog'[Len(wlog')].op = "Flush"
      ]_vars

\* C18 as stated: Push returns the "not supported" error on a hijacked
\* wrapper and on a real writer that is no http.Pusher.
C18_PushNotSupported ==
    [][ (Called("Push") /\ (rw.hijacked \/ "Pusher" \notin caps)) =>
           lastOp'.ret = "ErrNotSupported" ]_vars

\* C18: Push returns http.ErrHijacked on a hijacked wrapper and
\* http.ErrNotSupported when the wrapper is not hijacked and the real writer
\* is no http.Pusher, forwarding nothing in both cases; in every other case
\* it calls the real writer's Push and returns its result; it never changes
\* wroteHeader, hijacked or code.
C18_PushErrors ==
    [][ Called("Push") =>
           /\ rw' = rw
           /\ IF rw.hijacked
              THEN lastOp'.ret = "ErrHijacked" /\ wlog' = wlog
              ELSE IF "Pusher" \notin caps
                   THEN lastOp'.ret = "ErrNotSupported" /\ wlog' = wlog
                   ELSE /\ Reached
                        /\ wlog'[Len(wlog')].op = "Push"
                        /\ lastOp'.ret = wlog'[Len(wlog')].err
      ]_vars

C18_Witness ==
    /\ lastOp.op = "Push" /\ lastOp.ret = "ErrHijacked"
    /\ rw.hijacked

(* ----------------------- Write and ReadFrom ---------------------------- *)

\* the body bytes the real writer accepted, in order
Accepted(log) ==
    LET body == SelectSeq(Effective(log), LAMBDA e : e.op \in BodyOps /\ e.n > 0)
    IN [i \in 1..Len(body) |-> <<body[i].data.msg, body[i].n>>]

\* C19: whatever the state of the wrapper, the source and the answer of the
\* real writer, a ReadFrom(source) leaves what a Write(bytes of source)
\* would have left in its place: the same wroteHeader, hijacked and code and
\* the same status and body on the real writer, whether the real writer is
\* an io.ReaderFrom or not.
C19_ReadFromAsWrite ==
    [][ Called("ReadFrom") =>
          \A res \in RealWriteResults(lastOp'.data) :
             LET b == rwWrite(rw, wlog, lastOp'.data, res)
                 got == SelectSeq(wlog', LAMBDA e : e.op \in BodyOps)
                 had == SelectSeq(wlog, LAMBDA e : e.op \in BodyOps)
                 answered == Len(got) = Len(had) + 1
             IN (answered => (res.n = got[Len(got)].n /\ res.err = got[Len(got)].err)) =>
                   /\ rw' = b.rw
                   /\ wStatus(wlog') = wStatus(b.log)
                   /\ Accepted(wlog') = Accepted(b.log)
      ]_vars

C19_Witness ==
    /\ lastOp.op = "ReadFrom" /\ lastOp.ret = "ok" /\ lastOp.n > 0
    /\ "ReaderFrom" \notin caps
    /\ rw.wroteHeader /\ rw.code = StatusOK
    /\ Accepted(wlog) # << >>

\* C20: on a wrapper that is not hijacked, Write and ReadFrom return exactly
\* the byte count and the error the real writer returned for the call (and
\* zero bytes without error when an empty source made no call necessary).
C20_WriteResultPropagated ==
    [][ (~rw.hijacked /\ (Called("Write") \/ Called("ReadFrom"))) =>
           LET got == SelectSeq(wlog', LAMBDA e : e.op \in BodyOps)
               had == SelectSeq(wlog, LAMBDA e : e.op \in BodyOps)
           IN IF Len(got) = Len(had) + 1
              THEN /\ lastOp'.n = got[Len(got)].n
                   /\ lastOp'.ret = got[Len(got)].err
              ELSE /\ lastOp'.op = "ReadFrom"
                   /\ Len(got) = Len(had)
                   /\ lastOp'.n = 0 /\ lastOp'.ret = "ok"
      ]_vars

C20_Witness ==
    /\ lastOp.op \in {"Write", "ReadFrom"} /\ lastOp.ret = "EPIPE" /\ lastOp.n = 1
    /\ ~rw.hijacked
    /\ wlog[Len(wlog)].err = "EPIPE" /\ wlog[Len(wlog)].n = 1

(* ----------------------- the request's life cycle ---------------------- *)

\* C13: whatever ReportError calls are made during the request, by the
\* handler or by a goroutine it started, before or after the handler
\* returned, the middleware invokes the error handler at most once.
C13_InvokedAtMostOnce == ehCalls <= 1

C13_Witness ==
    /\ pc = "done" /\ ehCalls = 1
    /\ lastOp.op = "bg.ReportError" /\ lastOp.ret = "done"
    /\ lastOp.err \in RealErrors /\ lastOp.err # ehArg

\* the state of the request in the terms of the life cycle
State ==
    CASE pc = "running" -> "Running"
      [] pc \in {"decide", "clear", "invoke"} -> "Deciding"
      [] pc = "done" /\ ehCalls > 0 -> "Substituted"
      [] pc = "done" /\ ehCalls = 0 -> "PassThrough"

Terminal == State \in {"Substituted", "PassThrough"}

\* the middleware has done nothing to the sink
SinkUntouched == ehCalls = 0 /\ deleted = {} /\ ByParty(wlog, {"eh"}) = << >>

\* C14: a request moves Running -> Deciding -> Substituted or PassThrough
\* and in no other way; the middleware does nothing to the sink while the
\* handler runs, Substituted is the state reached through the error handler
\* and PassThrough the one reached without any action on the sink; a
\* terminal state is never left and nothing happens to the sink after it;
\* and once the handler has returned the request reaches a terminal state.
C14_LifeCycle ==
    /\ [][ /\ State' # State =>
                \/ State = "Running" /\ State' = "Deciding"
                \/ State = "Deciding" /\ State' \in {"Substituted", "PassThrough"}
           /\ (State = "Running" \/ State' = "PassThrough") => SinkUntouched'
           /\ State' = "Substituted" => ehCalls' = 1
           /\ Terminal =>
                /\ State' = State
                /\ UNCHANGED <<wlog, wHeader, wSent, deleted, ehCalls, ehArg>>
         ]_vars
    /\ (State = "Deciding") ~> Terminal

C14_Witness ==
    /\ State = "Substituted"
    /\ lastOp.op = "invoke"
    /\ ByParty(wlog, {"eh"}) # << >>

(* ------------------------ concurrent requests -------------------------- *)

\* all that request q can see or has produced: its own record, the failure
\* its reporter stored, its wrapper and its real writer
View(q) ==
    [req |-> srv.req[q],
     err |-> IF Through(q) THEN srv.heap[srv.req[q].reporter] ELSE NilErr,
     rw |-> WrapperOf(q),
     sink |-> srv.sinks[q]]

\* C11: a step of one request (a ReportError with its request, a write
\* through its wrapper, its middleware's decision) changes nothing of any
\* other request: not the failure stored for it, not its wrapper's
\* wroteHeader, hijacked and code, not its real writer, not its decision;
\* the failure stored for a request is always the one its own reports left.
C11_Isolation ==
    /\ [][ \A q \in Reqs : srv'.last.req # q => View(q)' = View(q) ]_vars
    /\ [](\A q \in Reqs : Through(q) => View(q).err = srv.req[q].reported)

C11_Witness ==
    /\ \A q \in Reqs : Through(q) /\ srv.req[q].pc = "done"
    /\ srv.req["A"].outcome = "Substitute" /\ srv.req["B"].outcome = "PassThrough"
    /\ srv.req["B"].reported = NilErr
    /\ wStatusBy(srv.sinks["A"].log) = "eh"
    /\ wStatus(srv.sinks["B"].log) = StatusNotFound
    /\ srv.wrappers["A"] # srv.wrappers["B"]

\* C12: a ReportError with a request whose context holds no reporter
\* returns normally (no panic, the handler goes on), stores nothing and
\* writes nothing to any response.
C12_NoReporterNoOp ==
    [][ \A q \in Reqs :
          ( /\ srv'.last = Last(q, "ReportError", srv'.last.err)
            /\ srv'.req[q].ops = srv.req[q].ops + 1
            /\ ~Through(q) ) =>
              /\ ~srv'.req[q].panicked
              /\ srv'.req[q].pc = "running"
              /\ srv'.heap = srv.heap
              /\ srv'.wrappers = srv.wrappers
              /\ srv'.sinks = srv.sinks
      ]_vars

C12_Witness ==
    /\ srv.last.op = "ReportError" /\ srv.last.err \in RealErrors
    /\ ~Through(srv.last.req)
    /\ ~srv.req[srv.last.req].panicked
    /\ \A q \in Reqs : srv.heap[q] = NilErr /\ srv.sinks[q].log = << >>

(* ------------------ what DefaultErrorHandler renders ------------------- *)

\* error values that are not a non-nil *HttpError
Unrecognized == {Generic("boom"), Generic("dial db: password rejected"), NilErr, TypedNil}

\* the calls the error handler made on the real writer
ByErrorHandler(log) == ByParty(log, {"eh"})

\* C21: for every error value that is not a non-nil *HttpError,
\* DefaultErrorHandler writes status 500 and the message "Internal Server
\* Error", and any two such values give the same response (calls on the
\* real writer, headers, header snapshot) for the same request.
C21_UnrecognizedNeverLeaks ==
    /\ (pc = "invoke" /\ ehKind = "default") =>
          \A e \in Unrecognized :
             LET o == Out(wlog, wHeader, wSent)
                 out == DefaultErrorHandler(o, accept, e)
                 eh == ByErrorHandler(out.log)
             IN /\ out = DefaultErrorHandler(o, accept, Generic("boom"))
                /\ Len(eh) = 2
                /\ eh[1].op = "WriteHeader" /\ eh[1].code = StatusInternalServerError
                /\ eh[2].op = "Write" /\ eh[2].data.msg = "Internal Server Error"
    /\ (pc = "done" /\ ehCalls = 1 /\ ehKind = "default" /\ ehArg \in Unrecognized) =>
          /\ ByErrorHandler(wlog)[1].code = StatusInternalServerError
          /\ ByErrorHandler(wlog)[2].data.msg = "Internal Server Error"

C21_Witness ==
    /\ pc = "done" /\ ehCalls = 1 /\ ehKind = "default"
    /\ ehArg = Generic("boom")
    /\ wStatus(wlog) = StatusInternalServerError
    /\ wBody(wlog)[1].data.msg = "Internal Server Error"

\* C22: when a non-nil *HttpError{Status: s, Message: m} is the stored
\* failure and the handler wrote nothing, the default middleware answers
\* with status s and, unless the request prefers HTML, one JSON body whose
\* status field is s and whose message field is m.
C22_RecognizedRendered ==
    ( /\ pc = "done" /\ ehKind = "default"
      /\ handlerError.kind = "http"
      /\ ByParty(wlog, {"rw", "direct"}) = << >> ) =>
        /\ ehCalls = 1
        /\ wStatus(wlog) = handlerError.status
        /\ ~UseHTML(accept) =>
              /\ Len(wBody(wlog)) = 1
              /\ wBody(wlog)[1].data =
                    [fmt |-> "json", status |-> handlerError.status,
                     msg |-> handlerError.msg]

C22_Witness ==
    /\ pc = "done" /\ ehKind = "default" /\ accept = {}
    /\ handlerError = BadRequestMsg
    /\ wStatus(wlog) = StatusBadRequest
    /\ wBody(wlog)[1].data.fmt = "json" /\ wBody(wlog)[1].data.msg = "bad id"

\* the content type DefaultErrorHandler chooses for a request
Negotiated(acc) ==
    IF UseHTML(acc) THEN "text/html; charset=utf-8"
    ELSE "application/json; charset=utf-8"

\* C23: when DefaultErrorHandler commits the response, the Content-Type in
\* the header the real writer puts on the wire with the status line is the
\* negotiated one.
C23_ContentTypeAtCommit ==
    ( /\ pc = "done" /\ ehCalls = 1 /\ ehKind = "default"
      /\ wStatusBy(wlog) = "eh" ) =>
        /\ "Content-Type" \in DOMAIN wSent.hdr
        /\ wSent.hdr["Content-Type"].val = Negotiated(accept)

(* ------------- constructors and ReportX helpers (library) -------------- *)

\* C24: every catalog constructor returns an HttpError with the
\* constructor's own status code and, as message, the first message
\* supplied, or the reason phrase http.StatusText(code) when none is.
C24_CatalogConstructor ==
    lib.fn \in DOMAIN Catalog =>
        /\ lib.out.kind = "http"
        /\ lib.out.status = Catalog[lib.fn]
        /\ lib.out.msg = IF Len(lib.args) > 0 THEN lib.args[1]
                         ELSE StatusText(Catalog[lib.fn])

C24_Witness ==
    /\ lib.fn = "RangeNotSatisfiable" /\ lib.args = << >>
    /\ lib.out = New(416, "Requested Range Not Satisfiable")

\* C25: the message of every HttpError that New or a catalog constructor
\* returns is non-empty.
C25_MessageNeverEmpty ==
    (lib.fn = "New" \/ lib.fn \in DOMAIN Catalog) => lib.out.msg # ""

\* C26: every HttpError that New returns has a status in 100..599, so the
\* status DefaultErrorHandler passes to WriteHeader for it is in that range.
C26_StatusInRange ==
    lib.fn = "New" =>
        /\ lib.out.status \in 100..599
        /\ LET o == DefaultErrorHandler(Out(<< >>, EmptyHeader, NotSent), {}, lib.out)
           IN o.log[1].op = "WriteHeader" /\ o.log[1].code \in 100..599

\* C27: a ReportX helper called with a request that holds a reporter hands
\* that reporter exactly one value, a non-nil *HttpError with X's status
\* code and the supplied message, or http.StatusText(code) when none is
\* supplied.
C27_ReportHelper ==
    (lib.fn \in ReportNames /\ lib.code = 1) =>
        /\ Len(lib.got) = 1
        /\ lib.got[1].kind = "http"
        /\ lib.got[1].status = Catalog[Reported(lib.fn)]
        /\ lib.got[1].msg = IF Len(lib.args) > 0 THEN lib.args[1]
                            ELSE StatusText(Catalog[Reported(lib.fn)])

C27_Witness ==
    /\ lib.fn = "ReportTeapot" /\ lib.code = 1 /\ lib.args = <<"custom">>
    /\ lib.got = <<New(StatusTeapot, "custom")>>

(* -------------------------- buffering variant -------------------------- *)

\* the body bytes the real writer received, joined
RECURSIVE Joined(_)
Joined(chunks) ==
    IF chunks = << >> THEN "" ELSE chunks[1].data.msg \o Joined(Tail(chunks))

\* C28: in the buffering variant, if a non-nil error is stored when the
\* handler returns, whatever the handler recorded before or after the
\* report, the error handler is invoked exactly once with it and no
\* recorded status, header or body reaches the real writer; otherwise the
\* error handler is not invoked and the real writer receives the recorded
\* headers, the recorded status code and the recorded body, and nothing else.
C28_BufferThenReplay ==
    /\ pc \in {"running", "decide"} => (wlog = << >> /\ ehCalls = 0)
    /\ pc = "done" =>
          IF IsNonNilInterface(errAtReturn)
          THEN /\ ehCalls = 1 /\ ehArg = errAtReturn
               /\ ByParty(wlog, {"mw"}) = << >>
               /\ \A k \in DOMAIN wHeader : wHeader[k].by # "handler"
               /\ \A k \in DOMAIN wSent.hdr : wSent.hdr[k].by # "handler"
          ELSE /\ ehCalls = 0
               /\ ByParty(wlog, {"mw"}) = wlog
               /\ wStatus(wlog) = recorder.Code
               /\ Joined(wBody(wlog)) = recorder.Body
               /\ \A k \in DOMAIN recorder.HeaderMap :
                     /\ k \in DOMAIN wSent.hdr
                     /\ wSent.hdr[k] = recorder.HeaderMap[k]
               /\ \A k \in DOMAIN wSent.hdr :
                     wSent.hdr[k].by = "handler" => k \in DOMAIN recorder.HeaderMap
               /\ wHeader = wSent.hdr

C28_Witness ==
    /\ pc = "done" /\ ehCalls = 1 /\ ehArg = BadRequestMsg
    /\ recorder.wroteHeader /\ recorder.Code = StatusNotFound
    /\ recorder.Body # ""
    /\ wStatus(wlog) = StatusBadRequest

(* ------------------- commitment tracking, races ------------------------ *)

\* calls by which the wrapper's own operations put a status line, body bytes
\* or a flush on the real writer
Output(log) ==
    SelectSeq(log, LAMBDA e : e.by = "rw"
                              /\ e.op \in {"WriteHeader", "Write", "ReadFrom", "Flush"})

\* C29: in every reachable state, if WriteHeader, Write, ReadFrom or Flush of
\* the wrapper has forwarded anything to the real writer then wroteHeader is
\* true, and the error handler is never invoked on top of such output.
C29_CommitTracked ==
    /\ Output(wlog) # << >> => rw.wroteHeader
    /\ ehCalls > 0 => Output(wlog) = << >>

C29_Witness ==
    /\ pc = "done" /\ ehCalls = 0 /\ handlerError \in RealErrors
    /\ rw.wroteHeader
    /\ \E i \in 1..Len(wlog) : wlog[i].by = "rw" /\ wlog[i].op = "Flush"
    /\ ByErrorHandler(wlog) = << >>

\* C30: the value handed to the error handler is non-nil and is the value
\* the middleware read when it decided to substitute, whatever a goroutine
\* started by the handler reports in between.
C30_HandedAsDecided ==
    ehCalls > 0 => (IsNonNilInterface(ehArg) /\ ehArg = errAtDecide)

(* ------------------------ several reports ----------------------------- *)

\* C31: when the handler passed one or more real errors to ReportError
\* before returning and the error handler is invoked, it is invoked once,
\* with the error of the last such call, and neither the status nor the
\* message of an earlier, different reported error is in what it wrote.
C31_LastReportWins ==
    ehCalls > 0 =>
        /\ reports # << >>
        /\ ehCalls = 1
        /\ LET last == reports[Len(reports)]
               eh == ByErrorHandler(wlog)
           IN /\ ehArg = last
              /\ \A i \in 1..(Len(reports) - 1) :
                    reports[i] # last =>
                       \A j \in 1..Len(eh) :
                          /\ eh[j].data.msg # reports[i].msg
                          /\ eh[j].op = "WriteHeader" => eh[j].code # reports[i].status

C31_Witness ==
    /\ pc = "done" /\ ehCalls = 1
    /\ Len(reports) >= 2
    /\ reports[1] = BadRequestMsg
    /\ reports[Len(reports)] = Generic("boom")
    /\ ehArg = Generic("boom")

(* -------------------- headers of an outer layer ------------------------ *)

\* the header keys an outer layer may have set before the middleware ran;
\* the next handler sets none of them
OuterKeys == UNION {DOMAIN h : h \in OuterHeaders}

\* C32: when the error handler is about to be invoked, no header that was
\* on the real ResponseWriter when the middleware was entered has been
\* removed from it.
C32_OuterHeadersKept ==
    pc = "invoke" =>
        deleted \cap OuterKeys = {}

(* -------------------- WriteHeader after a takeover --------------------- *)

\* C33: once Hijack has succeeded, a WriteHeader on the wrapper reaches
\* the real ResponseWriter with no call and leaves wroteHeader, hijacked
\* and code as they were; and no step of the request commits a wrapper
\* that was taken over while uncommitted.
C33_WriteHeaderAfterHijack ==
    [][ /\ (rw.hijacked /\ lastOp'.op = "WriteHeader") =>
              (rw' = rw /\ wlog' = wlog)
        /\ (rw.hijacked /\ ~rw.wroteHeader) =>
              (rw'.hijacked /\ ~rw'.wroteHeader /\ rw'.code = rw.code) ]_vars

C33_Witness ==
    /\ lastOp.op = "WriteHeader" /\ lastOp.code = StatusNotFound
    /\ rw.hijacked /\ ~rw.wroteHeader /\ rw.code = 0
    /\ \A i \in 1..Len(wlog) : wlog[i].op # "WriteHeader"

(* ------------------------------ Unwrap --------------------------------- *)

\* the handler wrote to the real writer past the wrapper and nothing
\* through it, and a failure is stored
Bypassed ==
    /\ ~NoDirect
    /\ ByParty(wlog, {"rw"}) = << >>
    /\ IsNonNilInterface(handlerError)

\* C34 as stated: Unwrap returns the writer the wrapper was built around,
\* and once the handler has written through that writer and reported a
\* failure, the middleware does not invoke the error handler on top of
\* what was written.
C34_NoBypass ==
    /\ rwUnwrap(rw) = "w"
    /\ (~NoDirect /\ IsNonNilInterface(handlerError)) =>
          (ehCalls = 0 /\ ByErrorHandler(wlog) = << >>)

\* C34 amended: Unwrap returns the writer the wrapper was built around and
\* a call on that writer changes none of wroteHeader, hijacked and code and
\* reaches the real writer as it is; such writes are therefore not tracked:
\* when the handler wrote through that writer only and a failure is stored,
\* the wrapper is uncommitted at the end of the request and the middleware
\* has invoked the error handler after the bytes already written.
C34_UnwrapUntracked ==
    /\ [][ (lastOp'.op \in {"Unwrap.WriteHeader", "Unwrap.Write"}) =>
             /\ rw' = rw
             /\ Reached
             /\ wlog'[Len(wlog')].by = "direct" ]_vars
    /\ []((pc = "done" /\ Bypassed) =>
             /\ rw = NewResponseWriter
             /\ ehCalls = 1
             /\ ByErrorHandler(wlog) # << >>
             /\ wStatusBy(wlog) = "direct")

C34_Witness ==
    /\ pc = "done" /\ Bypassed
    /\ ehCalls = 1
    /\ wStatus(wlog) = StatusOK /\ wStatusBy(wlog) = "direct"
    /\ Len(wBody(wlog)) >= 2
    /\ wBody(wlog)[1].by = "direct" /\ wBody(wlog)[Len(wBody(wlog))].by = "eh"

====
